---- MODULE Spec2Model ----
(***************************************************************************)
(* Bus Travel EDA dashboard (src/app.py): one Streamlit script that is     *)
(* re-executed from its first line on every interaction.  A run loads the  *)
(* CSV through a process-wide cache, normalises the column names, reads    *)
(* the five multiselects, filters, and renders KPIs, charts and insights.  *)
(*                                                                         *)
(* Cells are tagged values: a string, a number, NaN (a missing cell) or    *)
(* inf.  Amounts are integers; the means are kept as fractions.            *)
(***************************************************************************)
EXTENDS Integers, Sequences, FiniteSets, TLC

VARIABLES
    file,           \* the CSV on disk, as text cells
    cache,          \* st.cache_data's entry for load_data(): {} or {result}
    loaded_from,    \* history: the file content load_data() really read
    ties,           \* how this build's quicksort orders equal keys
    pc,             \* position of the current script run
    out,            \* elements emitted by the current run, in order
    df_raw,         \* {} or {frame}
    df,             \* {} or {frame}
    options,        \* {} or {field -> option values of its multiselect}
    criteria,       \* widget state: field -> selected values
    filtered_df,    \* {} or {frame}
    total_tickets, avg_fare, total_rev, max_book,   \* {} or {value}
    route_rev,      \* {} or {sequence of <<route, sum>>}
    heatmap_data,   \* {} or {frame}
    pivot,          \* {} or {[index, columns, cell]}
    insights        \* {} or {[top_route, top_time, dominant_gender, ...]}

vars == <<file, cache, loaded_from, ties, pc, out, df_raw, df, options, criteria,
          filtered_df, total_tickets, avg_fare, total_rev, max_book, route_rev,
          heatmap_data, pivot, insights>>

run_vars == <<df_raw, df, options, filtered_df, total_tickets, avg_fare, total_rev,
              max_book, route_rev, heatmap_data, pivot, insights>>

(***************************************************************************)
(* Bounds of the model.                                                    *)
(***************************************************************************)
MaxRows == 2        \* rows of a source table
MaxSel == 2         \* values selected over the five multiselects together
NBase == 10         \* distinct routes of the many-route tables
MaxExtra == 2       \* further rows of a many-route table

(***************************************************************************)
(* Values.  A name of the script that is not bound yet is the empty set, a *)
(* bound one the singleton of its value.                                   *)
(***************************************************************************)
Str(s) == [k |-> "str", s |-> s, n |-> 0]
Num(n) == [k |-> "num", s |-> "", n |-> n]
NaN == [k |-> "nan", s |-> "", n |-> 0]
Inf == [k |-> "inf", s |-> "", n |-> 0]

None == {}
Some(x) == {x}
The(o) == CHOOSE x \in o : TRUE

\* Texts that read as a number, with the number.
NumLit == ("-1" :> -1) @@ ("0" :> 0) @@ ("1" :> 1) @@ ("2" :> 2) @@ ("3" :> 3)
\* str() of an int64 and of a float64 cell.
IntText == (-1 :> "-1") @@ (0 :> "0") @@ (1 :> "1") @@ (2 :> "2") @@ (3 :> "3")
FloatText == (-1 :> "-1.0") @@ (0 :> "0.0") @@ (1 :> "1.0") @@ (2 :> "2.0") @@ (3 :> "3.0")

\* The strings of the model in Python's str order (by code point).
StrOrder == <<"", "-1", "-1.0", "0", "0.0", "1", "1.0", "2", "2.0", "3", "3.0",
              "A", "Adult", "B", "E", "F", "M", "N/A",
              "R01", "R02", "R03", "R04", "R05", "R06", "R07", "R08", "R09", "R10",
              "R11", "R12", "R13", "R14", "X", "abc", "inf", "nan">>
StrRank(s) == CHOOSE i \in 1..Len(StrOrder) : StrOrder[i] = s

\* a < b for two cells of one column (Python's <): strings by code point,
\* numbers by value.
ValLess(a, b) ==
    IF a.k = "str" /\ b.k = "str" THEN StrRank(a.s) < StrRank(b.s)
    ELSE IF a.k = "num" /\ b.k = "num" THEN a.n < b.n
    ELSE FALSE

Range(s) == {s[i] : i \in 1..Len(s)}

(***************************************************************************)
(* Frames: column labels (rename can make two equal) and rows of cells.    *)
(***************************************************************************)
Frame(cols, rows) == [columns |-> cols, rows |-> rows]
EmptyFrame == Frame(<<>>, <<>>)
HasCol(d, name) == \E j \in 1..Len(d.columns) : d.columns[j] = name
Duplicated(d, name) == Cardinality({j \in 1..Len(d.columns) : d.columns[j] = name}) > 1
Pos(d, name) == CHOOSE j \in 1..Len(d.columns) : d.columns[j] = name
\* d[name] as a sequence of cells
Col(d, name) == [i \in 1..Len(d.rows) |-> d.rows[i][Pos(d, name)]]
NRows(d) == Len(d.rows)

(***************************************************************************)
(* pd.read_csv: a column whose cells all read as numbers (or are empty) is *)
(* numeric and its empty cells are NaN; any other column keeps its texts   *)
(* as strings, with NaN for the empty cells.                               *)
(***************************************************************************)
NumericText(t) == t \in DOMAIN NumLit \/ t = "" \/ t = "inf"
NumericColumn(f, j) == \A i \in 1..Len(f.rows) : NumericText(f.rows[i][j])
ParseNumber(t) == IF t = "" THEN NaN ELSE IF t = "inf" THEN Inf ELSE Num(NumLit[t])
read_csv(f) ==
    Frame(f.header,
          [i \in 1..Len(f.rows) |->
              [j \in 1..Len(f.header) |->
                  IF NumericColumn(f, j)
                  THEN ParseNumber(f.rows[i][j])
                  ELSE IF f.rows[i][j] = "" THEN NaN ELSE Str(f.rows[i][j])]])

\* pd.to_numeric(errors='coerce') of one cell, then .fillna(0)
to_numeric(v) ==
    IF v.k = "str"
    THEN IF v.s \in DOMAIN NumLit THEN Num(NumLit[v.s])
         ELSE IF v.s = "inf" THEN Inf ELSE NaN
    ELSE v
fillna0(v) == IF v.k = "nan" THEN Num(0) ELSE v
Coerce(d, name) ==
    IF HasCol(d, name)
    THEN [d EXCEPT !.rows = [i \in 1..Len(d.rows) |->
              [d.rows[i] EXCEPT ![Pos(d, name)] = fillna0(to_numeric(@))]]]
    ELSE d

\* What load_data() returns and the st.error it emits: None with an error, or
\* the frame with both fare columns coerced.
ReadFile(f) ==
    IF ~f.exists THEN [ok |-> FALSE, df |-> EmptyFrame, err |-> "error_file_not_found"]
    ELSE IF ~f.parses THEN [ok |-> FALSE, df |-> EmptyFrame, err |-> "error_loading_csv"]
    ELSE [ok |-> TRUE, err |-> "",
          df |-> Coerce(Coerce(read_csv(f), "Seat Fare"), "Total Ticket Amount")]

\* @st.cache_data: the body runs on the first call only.
LoadUncached(c, f) == ReadFile(f)
load_data(c, f) == IF c # None THEN The(c) ELSE ReadFile(f)

\* "if df_raw is None: st.stop()"
NeverStops(r) == FALSE
StopsRun(r) == ~r.ok

(***************************************************************************)
(* Renaming and the default columns.                                       *)
(***************************************************************************)
COLUMN_MAP == ("Encode Route" :> "Route") @@ ("Category" :> "Category")
              @@ ("Time Of Travel" :> "Time_of_Travel") @@ ("Seat Fare" :> "Seat Fare")
              @@ ("Total Ticket Amount" :> "Total_Amount") @@ ("Gender" :> "Gender")
              @@ ("Age Group" :> "Age_Group")
required_cols == <<"Route", "Category", "Time_of_Travel", "Seat Fare", "Total_Amount",
                   "Gender", "Age_Group">>
FareCols == {"Seat Fare", "Total_Amount"}
Fields == {"Route", "Category", "Time_of_Travel", "Gender", "Age_Group"}

Rename(d) ==
    [d EXCEPT !.columns = [j \in 1..Len(d.columns) |->
        IF d.columns[j] \in DOMAIN COLUMN_MAP THEN COLUMN_MAP[d.columns[j]]
        ELSE d.columns[j]]]

DefaultOf(col) == IF col \in FareCols THEN Num(0) ELSE Str("N/A")
AddColumn(d, col) ==
    Frame(Append(d.columns, col),
          [i \in 1..Len(d.rows) |-> Append(d.rows[i], DefaultOf(col))])
FillMissing(d, col) == IF HasCol(d, col) THEN d ELSE AddColumn(d, col)

RECURSIVE FillAll(_, _)
FillAll(d, k) ==
    IF k > Len(required_cols) THEN d
    ELSE FillAll(FillMissing(d, required_cols[k]), k + 1)

Normalize(raw) == FillAll(Rename(raw), 1)

(***************************************************************************)
(* The sidebar: the option list of each multiselect.  sorted() raises a    *)
(* TypeError when it has to compare a str with a float (a NaN among        *)
(* strings); df[name] of a label that occurs twice is a frame, which has   *)
(* no .unique().  Gender and Age_Group are cast with astype(str) first.    *)
(***************************************************************************)
unique(d, name) == Range(Col(d, name))
SortRaises(S) == \E a \in S, b \in S : a.k = "str" /\ b.k # "str"
FloatColumn(d, name) ==
    /\ \A v \in unique(d, name) : v.k # "str"
    /\ \E v \in unique(d, name) : v.k \in {"nan", "inf"}
astype_str(v, isfloat) ==
    IF v.k = "str" THEN v
    ELSE IF v.k = "nan" THEN Str("nan")
    ELSE IF v.k = "inf" THEN Str("inf")
    ELSE Str(IF isfloat THEN FloatText[v.n] ELSE IntText[v.n])
CastFields == {"Gender", "Age_Group"}
OptionsOf(d, f) ==
    IF f \in CastFields
    THEN {astype_str(v, FloatColumn(d, f)) : v \in unique(d, f)}
    ELSE unique(d, f)
SidebarRaises(d) ==
    \/ \E f \in Fields : Duplicated(d, f)
    \/ \E f \in Fields \ CastFields : SortRaises(unique(d, f))

NoCriteria == [f \in Fields |-> {}]
\* The selections a user can make over the offered options, at most MaxSel
\* values in all.
Picks(opts) == {<<f, v>> : f \in Fields, v \in UNION {opts[g] : g \in Fields}}
Selections(opts) ==
    LET offered == {p \in Picks(opts) : p[2] \in opts[p[1]]}
    IN  {[f \in Fields |-> {p[2] : p \in {q \in P : q[1] = f}}] :
            P \in {Q \in SUBSET offered : Cardinality(Q) <= MaxSel}}

(***************************************************************************)
(* The filter: five boolean masks applied one after the other, each only   *)
(* when its multiselect is non-empty.                                      *)
(***************************************************************************)
Keep(d, name, sel) ==
    [d EXCEPT !.rows = SelectSeq(d.rows, LAMBDA r : r[Pos(d, name)] \in sel)]
IsinAlways(d, name, sel) == Keep(d, name, sel)
Isin(d, name, sel) == IF sel # {} THEN Keep(d, name, sel) ELSE d

FilterOrder == <<"Route", "Category", "Time_of_Travel", "Gender", "Age_Group">>
RECURSIVE LastWins(_, _, _, _)
LastWins(d, cur, c, k) ==
    IF k > Len(FilterOrder) THEN cur
    ELSE LastWins(d, IF c[FilterOrder[k]] # {} THEN Keep(d, FilterOrder[k], c[FilterOrder[k]])
                     ELSE cur, c, k + 1)
FilterLastWins(d, c) == LastWins(d, d, c, 1)
FilterDf(d, c) ==
    Isin(Isin(Isin(Isin(Isin(d, "Route", c["Route"]),
                        "Category", c["Category"]),
                   "Time_of_Travel", c["Time_of_Travel"]),
              "Gender", c["Gender"]),
         "Age_Group", c["Age_Group"])

(***************************************************************************)
(* KPIs.  pandas skips NaN in sum, mean and max.  The sources drawn below  *)
(* hold no "inf" amount in the runs that reach this point.                 *)
(***************************************************************************)
Frac(n, d) == [num |-> n, den |-> d]
RECURSIVE SumFrom(_, _)
SumFrom(s, i) ==
    IF i > Len(s) THEN 0
    ELSE (IF s[i].k = "num" THEN s[i].n ELSE 0) + SumFrom(s, i + 1)
Sum(s) == SumFrom(s, 1)
Count(s) == Cardinality({i \in 1..Len(s) : s[i].k # "nan"})
Mean(s) == Frac(Sum(s), Count(s))
Max(s) ==
    IF Count(s) = 0 THEN NaN
    ELSE CHOOSE v \in Range(s) : v.k = "num" /\ \A w \in Range(s) : w.k = "num" => w.n <= v.n

AvgFareUnguarded(fd) == Mean(Col(fd, "Seat Fare"))
AvgFare(fd) == IF NRows(fd) > 0 THEN Mean(Col(fd, "Seat Fare")) ELSE Frac(0, 1)
TotalRev(fd) == IF NRows(fd) > 0 THEN Sum(Col(fd, "Total_Amount")) ELSE 0
MaxBook(fd) == IF NRows(fd) > 0 THEN Max(Col(fd, "Total_Amount")) ELSE Num(0)

(***************************************************************************)
(* Series.sort_values(ascending=False) with the default kind 'quicksort':  *)
(* descending by value; numpy does not promise an order among equal        *)
(* values.  A build whose sort is stable keeps them in their order before  *)
(* the sort (base), another may reverse them; `ties' is the build's way.   *)
(***************************************************************************)
TieWays == {"stable", "reversed"}
\* An entry of a Series being sorted: its index key, its value and its place
\* before the sort.
Entry(k, v, b) == [key |-> k, val |-> v, base |-> b]
PrecedesAscending(a, b, t) ==
    \/ a.val < b.val
    \/ a.val = b.val /\ (IF t = "stable" THEN a.base < b.base ELSE a.base > b.base)
Precedes(a, b, t) ==
    \/ a.val > b.val
    \/ a.val = b.val /\ (IF t = "stable" THEN a.base < b.base ELSE a.base > b.base)
sort_values(S, t) ==
    [i \in 1..Cardinality(S) |->
        CHOOSE a \in S : Cardinality({b \in S : Precedes(b, a, t)}) = i - 1]

TopN == 10
Min(a, b) == IF a < b THEN a ELSE b
head(s) == SubSeq(s, 1, Min(TopN, Len(s)))

\* groupby("Route")["Total_Amount"].sum(): one group per non-NaN route, in
\* sorted key order.
Cell(d, i, name) == d.rows[i][Pos(d, name)]
Routes(fd) == {v \in unique(fd, "Route") : v.k # "nan"}
RowsOf(fd, r) == {i \in 1..NRows(fd) : Cell(fd, i, "Route") = r}
SumOver(fd, I) ==
    Sum([i \in 1..NRows(fd) |-> IF i \in I THEN Cell(fd, i, "Total_Amount") ELSE NaN])
GroupBySum(fd) ==
    LET keys == Routes(fd)
    IN  {Entry(r, SumOver(fd, RowsOf(fd, r)), Cardinality({q \in keys : ValLess(q, r)})) :
            r \in keys}
RouteRev(fd, t) ==
    LET order == head(sort_values(GroupBySum(fd), t))
    IN  [i \in 1..Len(order) |-> [Route |-> order[i].key, Total_Amount |-> order[i].val]]

\* value_counts(): one entry per non-NaN route in order of first appearance,
\* then sorted descending by count; nlargest(10) keeps the first ten.
FirstOf(I) == CHOOSE i \in I : \A j \in I : i <= j
ValueCounts(fd) ==
    {Entry(r, Cardinality(RowsOf(fd, r)), FirstOf(RowsOf(fd, r))) : r \in Routes(fd)}
Top10(fd, t) == {e.key : e \in Range(head(sort_values(ValueCounts(fd), t)))}
HeatmapData(fd, t) == Keep(fd, "Route", Top10(fd, t))

\* pd.pivot_table(values="Total_Amount", index="Route", columns="Time_of_Travel",
\* aggfunc="count").fillna(0): groups with a NaN key are dropped, count counts
\* the non-null Total_Amount cells of a group.
PivotRows(hd) == {i \in 1..NRows(hd) : Cell(hd, i, "Time_of_Travel").k # "nan"
                                         /\ Cell(hd, i, "Route").k # "nan"}
Pivot(hd) ==
    LET rws == PivotRows(hd)
        idx == {Cell(hd, i, "Route") : i \in rws}
        cols == {Cell(hd, i, "Time_of_Travel") : i \in rws}
    IN  [index |-> idx, columns |-> cols,
         cell |-> [p \in idx \X cols |->
                     Cardinality({i \in rws :
                         /\ Cell(hd, i, "Route") = p[1]
                         /\ Cell(hd, i, "Time_of_Travel") = p[2]
                         /\ Cell(hd, i, "Total_Amount").k # "nan"})]]
\* sns.heatmap of a frame without cells raises ValueError.
HeatmapRaises(hd) == PivotRows(hd) = {}

\* Series.mode().values[0]: the smallest of the most frequent non-NaN
\* values; IndexError when the column holds only NaN.
Present(s) == {v \in Range(s) : v.k # "nan"}
Freq(s, v) == Cardinality({i \in 1..Len(s) : s[i] = v})
Mode(s) ==
    LET top == {v \in Present(s) : \A w \in Present(s) : Freq(s, w) <= Freq(s, v)}
    IN  CHOOSE m \in top : \A o \in top \ {m} : ValLess(m, o)
ModeRaises(s) == Present(s) = {}
InsightFields == <<"Route", "Time_of_Travel", "Gender", "Age_Group">>
InsightsRaise(fd) == \E k \in 1..Len(InsightFields) : ModeRaises(Col(fd, InsightFields[k]))
MultiSeatPerc(fd) ==
    Frac(100 * Cardinality({i \in 1..NRows(fd) :
                /\ Cell(fd, i, "Total_Amount").k = "num"
                /\ Cell(fd, i, "Total_Amount").n > Cell(fd, i, "Seat Fare").n}),
         NRows(fd))
Insights(fd) ==
    [top_route |-> Mode(Col(fd, "Route")),
     top_time |-> Mode(Col(fd, "Time_of_Travel")),
     dominant_gender |-> Mode(Col(fd, "Gender")),
     dominant_age_group |-> Mode(Col(fd, "Age_Group")),
     multi_seat_perc |-> MultiSeatPerc(fd)]

(***************************************************************************)
(* Source files.  A file is missing, unreadable as CSV, or a table of text *)
(* cells under a header.                                                   *)
(***************************************************************************)
MissingFile == [exists |-> FALSE, parses |-> FALSE, header |-> <<>>, rows |-> <<>>]
GarbageFile == [exists |-> TRUE, parses |-> FALSE, header |-> <<>>, rows |-> <<>>]
Table(h, rows) == [exists |-> TRUE, parses |-> TRUE, header |-> h, rows |-> rows]
SeqsUpTo(S, n) == UNION {[1..m -> S] : m \in 0..n}

SourceHeader == <<"Encode Route", "Category", "Time Of Travel", "Seat Fare",
                  "Total Ticket Amount", "Gender", "Age Group">>
\* The same table written back under the canonical name of the total.
ExportedTotalHeader == <<"Encode Route", "Category", "Time Of Travel", "Seat Fare",
                         "Total_Amount", "Gender", "Age Group">>

\* Tables of the dashboard runs: two routes, a gender given as text, as the
\* numeric code 1 or left empty, and one row without a category.
MainRow(r, c, g) == <<r, c, "M", "2", IF r = "B" THEN "3" ELSE "2", g, "Adult">>
MainRowChoices ==
    {MainRow("A", "X", "F"), MainRow("B", "X", "F"), MainRow("A", "X", "1"),
     MainRow("B", "X", ""), MainRow("A", "", "F")}
MainFiles ==
    {MissingFile, GarbageFile}
    \cup {Table(SourceHeader, rows) : rows \in SeqsUpTo(MainRowChoices, MaxRows)}
\* What the file can be replaced by while the dashboard is running.
Replacements == {MissingFile, Table(SourceHeader, <<MainRow("B", "X", "F")>>)}

\* Tables for the loader: any subset of the source and canonical column
\* names, at most one row, one text in its fare cells.
AllNames == <<"Encode Route", "Route", "Category", "Time Of Travel", "Time_of_Travel",
              "Seat Fare", "Total Ticket Amount", "Total_Amount", "Gender",
              "Age Group", "Age_Group">>
FareNames == {"Seat Fare", "Total Ticket Amount", "Total_Amount"}
RawFares == {"2", "-1", "abc", "", "inf"}
SubSeqOf(s, I) ==
    [k \in 1..Cardinality(I) |->
        s[CHOOSE i \in I : Cardinality({j \in I : j < i}) = k - 1]]
Headers == {SubSeqOf(AllNames, I) : I \in SUBSET (1..Len(AllNames))}
LoaderRow(h, t) == [j \in 1..Len(h) |-> IF h[j] \in FareNames THEN t ELSE "A"]
LoaderFiles ==
    {MissingFile, GarbageFile}
    \cup {Table(h, <<>>) : h \in Headers}
    \cup {Table(h, <<LoaderRow(h, t)>>) : h \in Headers, t \in RawFares}

\* Tables with many routes: none or NBase routes of one row each, then up
\* to MaxExtra rows of two further routes or of no route.
RouteNames == <<"R01", "R02", "R03", "R04", "R05", "R06", "R07", "R08", "R09", "R10",
                "R11", "R12", "R13", "R14">>
RouteRow(r, t, a) == <<r, "X", t, "2", a, "F", "Adult">>
BaseRows == [i \in 1..NBase |-> RouteRow(RouteNames[i], "M", "2")]
ExtraRowChoices ==
    {RouteRow(r, t, a) : r \in {RouteNames[NBase + 1], RouteNames[NBase + 2], ""},
                         t \in {"M", "E", ""}, a \in {"3", ""}}
RouteFiles ==
    {Table(h, b \o x) : h \in {SourceHeader, ExportedTotalHeader},
                        b \in {<<>>, BaseRows},
                        x \in SeqsUpTo(ExtraRowChoices, MaxExtra)}

(***************************************************************************)
(* One script run, in four steps, and what happens between runs.           *)
(***************************************************************************)
InitWith(files) ==
    /\ file \in files
    /\ cache = None
    /\ loaded_from = None
    /\ ties \in TieWays
    /\ pc = "start"
    /\ out = <<>>
    /\ criteria = NoCriteria
    /\ df_raw = None /\ df = None /\ options = None /\ filtered_df = None
    /\ total_tickets = None /\ avg_fare = None /\ total_rev = None /\ max_book = None
    /\ route_rev = None /\ heatmap_data = None /\ pivot = None /\ insights = None

\* Lines 9-57: page header, load_data() through the cache, st.stop() on None.
RunLoad ==
    /\ pc = "start"
    /\ LET r == load_data(cache, file)
       IN  /\ cache' = Some(r)
           /\ loaded_from' = IF cache = None THEN Some(file) ELSE loaded_from
           /\ out' = <<"style", "title", "subtitle">> \o (IF r.ok THEN <<>> ELSE <<r.err>>)
           /\ pc' = IF StopsRun(r) THEN "stopped" ELSE "loaded"
           /\ df_raw' = IF r.ok THEN Some(r.df) ELSE None
    /\ UNCHANGED <<file, ties, criteria, df, options, filtered_df, total_tickets,
                   avg_fare, total_rev, max_book, route_rev, heatmap_data, pivot,
                   insights>>

\* Lines 59-77: rename and default columns (None.copy() raises).
RunNormalize ==
    /\ pc = "loaded"
    /\ IF df_raw = None
       THEN /\ pc' = "crashed"
            /\ out' = Append(out, "exception")
            /\ df' = df
       ELSE /\ pc' = "normalized"
            /\ out' = out
            /\ df' = Some(Normalize(The(df_raw)))
    /\ UNCHANGED <<file, cache, loaded_from, ties, criteria, df_raw, options,
                   filtered_df, total_tickets, avg_fare, total_rev, max_book,
                   route_rev, heatmap_data, pivot, insights>>

\* Lines 79-99: the five multiselects and the filter.
Widgets == <<"filters_header", "select_route", "select_category", "select_time",
             "select_gender", "select_age_group">>
RunFilters ==
    /\ pc = "normalized"
    /\ IF SidebarRaises(The(df))
       THEN /\ pc' = "crashed"
            /\ out' = out \o <<"filters_header", "exception">>
            /\ options' = options
            /\ filtered_df' = filtered_df
       ELSE /\ pc' = "filtered"
            /\ out' = out \o Widgets
            /\ options' = Some([f \in Fields |-> OptionsOf(The(df), f)])
            /\ filtered_df' = Some(FilterDf(The(df), criteria))
    /\ UNCHANGED <<file, cache, loaded_from, ties, criteria, df_raw, df,
                   total_tickets, avg_fare, total_rev, max_book, route_rev,
                   heatmap_data, pivot, insights>>

\* Lines 101-201: KPIs, then either charts, heatmap, insights and the download
\* button, or the "no data" warning.
Charts == <<"chart_category", "chart_route_revenue", "chart_age_gender",
            "chart_gender", "chart_scatter">>
RunSummary ==
    /\ pc = "filtered"
    /\ LET fd == The(filtered_df)
           n == NRows(fd)
           hd == HeatmapData(fd, ties)
           hm_raises == NRows(hd) > 0 /\ HeatmapRaises(hd)
           in_raises == InsightsRaise(fd)
       IN  /\ total_tickets' = Some(n)
           /\ avg_fare' = Some(AvgFare(fd))
           /\ total_rev' = Some(TotalRev(fd))
           /\ max_book' = Some(MaxBook(fd))
           /\ IF n > 0
              THEN /\ route_rev' = Some(RouteRev(fd, ties))
                   /\ heatmap_data' = Some(hd)
                   /\ pivot' = IF NRows(hd) > 0 THEN Some(Pivot(hd)) ELSE None
                   /\ insights' = IF hm_raises \/ in_raises THEN None
                                  ELSE Some(Insights(fd))
                   /\ pc' = IF hm_raises \/ in_raises THEN "crashed" ELSE "done"
                   /\ out' = out \o <<"kpi">> \o Charts
                             \o (IF hm_raises THEN <<"exception">>
                                 ELSE (IF NRows(hd) > 0 THEN <<"heatmap">>
                                       ELSE <<"heatmap_info">>)
                                      \o (IF in_raises THEN <<"exception">>
                                          ELSE <<"insights", "download">>))
              ELSE /\ route_rev' = None /\ heatmap_data' = None
                   /\ pivot' = None /\ insights' = None
                   /\ pc' = "done"
                   /\ out' = out \o <<"kpi", "warning">>
    /\ UNCHANGED <<file, cache, loaded_from, ties, criteria, df_raw, df, options,
                   filtered_df>>

\* An interaction (a changed selection when the widgets are on the page, a
\* reload otherwise) starts the script again.
Rerun ==
    /\ pc \in {"done", "stopped", "crashed"}
    /\ \E c \in (IF options # None THEN Selections(The(options)) ELSE {criteria}) :
           criteria' = c
    /\ pc' = "start"
    /\ out' = <<>>
    /\ df_raw' = None /\ df' = None /\ options' = None /\ filtered_df' = None
    /\ total_tickets' = None /\ avg_fare' = None /\ total_rev' = None
    /\ max_book' = None /\ route_rev' = None /\ heatmap_data' = None
    /\ pivot' = None /\ insights' = None
    /\ UNCHANGED <<file, cache, loaded_from, ties>>

\* The file is replaced or removed after it was loaded.
ModifyFile ==
    /\ cache # None
    /\ \E f \in Replacements \ {file} : file' = f
    /\ UNCHANGED <<cache, loaded_from, ties, pc, out, criteria, run_vars>>

Init == InitWith(MainFiles)
Next == RunLoad \/ RunNormalize \/ RunFilters \/ RunSummary \/ Rerun \/ ModifyFile
Spec == Init /\ [][Next]_vars

InitLoader == InitWith(LoaderFiles)
NextLoader == RunLoad \/ RunNormalize
SpecLoader == InitLoader /\ [][NextLoader]_vars

InitRoutes == InitWith(RouteFiles)
NextRoutes == RunLoad \/ RunNormalize \/ RunFilters \/ RunSummary
SpecRoutes == InitRoutes /\ [][NextRoutes]_vars

(***************************************************************************)
(* Properties.                                                             *)
(***************************************************************************)
\* A record passes when, for every field with a non-empty selection, its value
\* is one of the selected values.
Passes(d, r, c) == \A f \in Fields : c[f] # {} => r[Pos(d, f)] \in c[f]
Selected(c) == {f \in Fields : c[f] # {}}

\* C1: the filtered view holds exactly the records of the normalized dataset
\* that pass every non-empty criterion, in the dataset's order, under the
\* dataset's columns; empty criteria constrain nothing.
C1_FilterContract ==
    filtered_df # None =>
        /\ The(filtered_df).columns = The(df).columns
        /\ The(filtered_df).rows =
               SelectSeq(The(df).rows, LAMBDA r : Passes(The(df), r, criteria))
\* Two fields are constrained, and some but not all records pass.
C1_Witness ==
    /\ filtered_df # None
    /\ Cardinality(Selected(criteria)) = 2
    /\ NRows(The(filtered_df)) > 0
    /\ NRows(The(filtered_df)) < NRows(The(df))

\* The per-field conjunction of two criteria: the intersection of the two sets
\* of allowed values, an empty set standing for "all values".
Conjunction(c1, c2) ==
    [f \in Fields |-> IF c1[f] = {} THEN c2[f]
                      ELSE IF c2[f] = {} THEN c1[f] ELSE c1[f] \cap c2[f]]
Contradictory(c1, c2) ==
    \E f \in Fields : c1[f] # {} /\ c2[f] # {} /\ c1[f] \cap c2[f] = {}

\* C2 as stated: for every second criteria c2, filtering the current view by c2
\* equals filtering the dataset once by the conjunction of the two criteria,
\* also when two non-empty sets of a field are disjoint.
C2_AsClaimed ==
    filtered_df # None =>
        \A c2 \in Selections(The(options)) :
            FilterDf(The(filtered_df), c2)
                = FilterDf(The(df), Conjunction(criteria, c2))
\* C2 amended: the two filters compose to the filter by the conjunction in which
\* an empty set is "all values", whenever no field has two non-empty disjoint
\* sets; where one has, filtering twice leaves no record.
C2_FilterConjunction ==
    filtered_df # None =>
        \A c2 \in Selections(The(options)) :
            IF Contradictory(criteria, c2)
            THEN NRows(FilterDf(The(filtered_df), c2)) = 0
            ELSE FilterDf(The(filtered_df), c2)
                     = FilterDf(The(df), Conjunction(criteria, c2))
\* A view filtered on one field is filtered again on another, and the second
\* filter removes a record the first kept.
C2_Witness ==
    /\ filtered_df # None
    /\ Selected(criteria) # {}
    /\ \E c2 \in Selections(The(options)) :
           /\ Selected(c2) # {} /\ Selected(c2) # Selected(criteria)
           /\ ~Contradictory(criteria, c2)
           /\ NRows(FilterDf(The(filtered_df), c2)) > 0
           /\ NRows(FilterDf(The(filtered_df), c2)) < NRows(The(filtered_df))

\* C3 as stated: after normalization every Seat Fare and Total_Amount cell is a
\* finite number that is not negative.
FareCells(d) ==
    {d.rows[i][j] : i \in 1..Len(d.rows),
                    j \in {q \in 1..Len(d.columns) : d.columns[q] \in FareCols}}
C3_AsClaimed ==
    df # None => \A v \in FareCells(The(df)) : v.k = "num" /\ v.n >= 0

\* C4 as stated: after normalization each of the seven canonical columns is
\* there exactly once; an injected column holds "N/A" (0 for a fare) in every
\* row; a column of the source keeps its source values, coerced for the fares.
Occurrences(d, name) == Cardinality({j \in 1..Len(d.columns) : d.columns[j] = name})
SourceNamesOf(name) == {h \in DOMAIN COLUMN_MAP : COLUMN_MAP[h] = name} \cup {name}
InSource(f, name) == \E j \in 1..Len(f.header) : f.header[j] \in SourceNamesOf(name)
C4_AsClaimed ==
    df # None =>
        \A k \in 1..Len(required_cols) :
            LET name == required_cols[k]
                src == The(loaded_from)
            IN  /\ Occurrences(The(df), name) = 1
                /\ ~InSource(src, name) =>
                       \A i \in 1..NRows(The(df)) : Cell(The(df), i, name) = DefaultOf(name)
                /\ InSource(src, name) =>
                       \A i \in 1..NRows(The(df)) :
                           Cell(The(df), i, name) = Cell(Rename(The(df_raw)), i, name)

\* C5 as stated: on an empty view the four KPIs are 0, multi_seat_percent is 0
\* and the four mode-based insights are "N/A".
Zero == Frac(0, 1)
EmptyView == filtered_df # None /\ NRows(The(filtered_df)) = 0
C5_AsClaimed ==
    (EmptyView /\ pc = "done") =>
        /\ total_tickets = Some(0) /\ avg_fare = Some(Zero)
        /\ total_rev = Some(0) /\ max_book = Some(Num(0))
        /\ insights = Some([top_route |-> Str("N/A"), top_time |-> Str("N/A"),
                            dominant_gender |-> Str("N/A"),
                            dominant_age_group |-> Str("N/A"),
                            multi_seat_perc |-> Zero])
\* C5 amended: a run whose view is empty ends without an exception, with the four
\* KPIs 0 and the "no data" warning; multi_seat_percent and the mode-based
\* insights are not computed at all, and no chart, insight or download is shown.
C5_EmptyViewSummary ==
    (EmptyView /\ pc \notin {"filtered"}) =>
        /\ pc = "done"
        /\ total_tickets = Some(0) /\ avg_fare = Some(Zero)
        /\ total_rev = Some(0) /\ max_book = Some(Num(0))
        /\ insights = None /\ route_rev = None /\ pivot = None
        /\ out = <<"style", "title", "subtitle">> \o Widgets \o <<"kpi", "warning">>
\* A selection that no record of a non-empty dataset passes has been summarised.
C5_Witness ==
    /\ EmptyView /\ pc = "done"
    /\ NRows(The(df)) > 0
    /\ Cardinality(Selected(criteria)) = 2

\* C6: the routes listed, their sums, and the sum of a route over the view.
Listed(rr) == {rr[i].Route : i \in 1..Len(rr)}
ViewSum(fd, r) ==
    Sum([i \in 1..NRows(fd) |->
            IF Cell(fd, i, "Route") = r THEN Cell(fd, i, "Total_Amount") ELSE NaN])
FirstSeen(fd, r) == CHOOSE i \in 1..NRows(fd) :
                        /\ Cell(fd, i, "Route") = r
                        /\ \A j \in 1..(i - 1) : Cell(fd, j, "Route") # r
RankingHolds(fd, rr) ==
    /\ Len(rr) = Min(TopN, Cardinality(Routes(fd)))
    /\ \A i \in 1..Len(rr) : rr[i].Route \in Routes(fd)
                             /\ rr[i].Total_Amount = ViewSum(fd, rr[i].Route)
    /\ \A i \in 1..Len(rr), j \in 1..Len(rr) :
           i < j => rr[i].Route # rr[j].Route /\ rr[i].Total_Amount >= rr[j].Total_Amount
    /\ \A r \in Routes(fd) \ Listed(rr) :
           \A i \in 1..Len(rr) : ViewSum(fd, r) <= rr[i].Total_Amount
\* C6 as stated, for a build whose sort keeps equal values in order (the build
\* most favourable to the tie rule): at most 10 routes with their sums, in
\* non-increasing order, no omitted route above a listed one, and of two routes
\* with equal sums the one that appears first in the view is listed first.
C6_AsClaimed ==
    (route_rev # None /\ ties = "stable") =>
        /\ RankingHolds(The(filtered_df), The(route_rev))
        /\ \A i \in 1..Len(The(route_rev)), j \in 1..Len(The(route_rev)) :
               (i < j /\ The(route_rev)[i].Total_Amount = The(route_rev)[j].Total_Amount)
               => FirstSeen(The(filtered_df), The(route_rev)[i].Route)
                      < FirstSeen(The(filtered_df), The(route_rev)[j].Route)
\* C6 amended: at most 10 routes, each with the sum of its non-missing
\* Total_Amount cells, in non-increasing order of the sum, no omitted route above
\* a listed one; the order of two routes with equal sums is not decided by which
\* appears first in the view.
C6_RouteRevenueTop10 ==
    route_rev # None => RankingHolds(The(filtered_df), The(route_rev))
\* More than ten routes, so one is omitted, and two listed routes have equal sums.
C6_Witness ==
    /\ route_rev # None
    /\ Cardinality(Routes(The(filtered_df))) > TopN
    /\ Len(The(route_rev)) = TopN
    /\ The(route_rev)[1].Total_Amount > The(route_rev)[TopN].Total_Amount
    /\ \E i \in 1..(TopN - 1) :
           The(route_rev)[i].Total_Amount = The(route_rev)[i + 1].Total_Amount

\* C7 as stated: when loading fails, the error message, naming the failed
\* resource, is the only thing the run emits.
LoadFailed == cache # None /\ ~The(cache).ok
NamesResource(e) == e = "error_file_not_found"
C7_AsClaimed ==
    (LoadFailed /\ pc # "start") =>
        /\ pc = "stopped"
        /\ Len(out) = 1 /\ NamesResource(out[1])
\* C7 amended: when loading fails, every run stops right after load_data(): it
\* emits the page header (style, title, subtitle) that precedes the load and one
\* error message, which names the path for a missing file and carries the
\* parser's exception for an unparsable one; no filter control, KPI, chart,
\* insight or download offer is rendered and nothing of the dashboard is computed.
C7_LoadFailureHalts ==
    LoadFailed =>
        /\ pc \in {"start", "stopped"}
        /\ pc = "start" => out = <<>>
        /\ pc = "stopped" =>
               out = <<"style", "title", "subtitle", The(cache).err>>
        /\ The(cache).err =
               (IF The(loaded_from).exists THEN "error_loading_csv"
                ELSE "error_file_not_found")
        /\ df = None /\ options = None /\ filtered_df = None /\ total_tickets = None
        /\ route_rev = None /\ pivot = None /\ insights = None
\* A run has stopped on the cached failure of an unparsable file while a good
\* file is in its place.
C7_Witness ==
    /\ LoadFailed /\ pc = "stopped"
    /\ The(cache).err = "error_loading_csv"
    /\ file.exists /\ file.parses

\* C8: once loaded, every run works on the dataset of the first load, and its
\* view and summary are those of that dataset under the current selection only.
FirstDataset == Normalize(ReadFile(The(loaded_from)).df)
C8_DatasetAndViewStable ==
    (cache # None /\ The(cache).ok) =>
        /\ df # None => df = Some(FirstDataset)
        /\ filtered_df # None => filtered_df = Some(FilterDf(FirstDataset, criteria))
        /\ total_tickets # None =>
               /\ total_tickets = Some(NRows(FilterDf(FirstDataset, criteria)))
               /\ total_rev = Some(TotalRev(FilterDf(FirstDataset, criteria)))
               /\ avg_fare = Some(AvgFare(FilterDf(FirstDataset, criteria)))
               /\ max_book = Some(MaxBook(FilterDf(FirstDataset, criteria)))
        /\ route_rev # None =>
               route_rev = Some(RouteRev(FilterDf(FirstDataset, criteria), ties))
        /\ insights # None => insights = Some(Insights(FilterDf(FirstDataset, criteria)))
\* A later run, under a changed selection and after the file was replaced, has
\* produced its view and summary.
C8_Witness ==
    /\ pc = "done"
    /\ loaded_from # None /\ file # The(loaded_from)
    /\ Selected(criteria) # {}
    /\ NRows(The(filtered_df)) > 0
    /\ NRows(The(filtered_df)) < NRows(The(df))

\* C9 as stated: the heatmap rows are the rows of the ten most frequent routes;
\* each cell counts the rows of its route and time; a pivot is made exactly when
\* there are such rows, and their absence is reported, not raised.
RowCount(fd, r) == Cardinality({i \in 1..NRows(fd) : Cell(fd, i, "Route") = r})
MostFrequent(fd, T) ==
    /\ T \subseteq Routes(fd)
    /\ Cardinality(T) = Min(TopN, Cardinality(Routes(fd)))
    /\ \A r \in T, q \in Routes(fd) \ T : RowCount(fd, q) <= RowCount(fd, r)
C9_AsClaimed ==
    heatmap_data # None =>
        LET fd == The(filtered_df)
            hd == The(heatmap_data)
            T == {Cell(hd, i, "Route") : i \in 1..NRows(hd)}
        IN  /\ \E T10 \in SUBSET Routes(fd) :
                   /\ MostFrequent(fd, T10)
                   /\ hd = Keep(fd, "Route", T10)
            /\ pivot # None <=> NRows(hd) > 0
            /\ NRows(hd) = 0 => \E k \in 1..Len(out) : out[k] = "heatmap_info"
            /\ pivot # None =>
                   \A p \in DOMAIN The(pivot).cell :
                       The(pivot).cell[p] =
                           Cardinality({i \in 1..NRows(hd) :
                               /\ Cell(hd, i, "Route") = p[1]
                               /\ Cell(hd, i, "Time_of_Travel") = p[2]})

\* C10 as stated: selecting exactly one offered value of a field leaves at least
\* one record, and selecting all offered values of a field leaves the dataset.
Only(f, S) == [NoCriteria EXCEPT ![f] = S]
C10_AsClaimed ==
    filtered_df # None =>
        \A f \in Fields :
            /\ \A v \in The(options)[f] :
                   criteria = Only(f, {v}) => NRows(The(filtered_df)) > 0
            /\ (The(options)[f] # {} /\ criteria = Only(f, The(options)[f]))
                   => The(filtered_df) = The(df)

====
